---- MODULE Spec2Model ----
(***************************************************************************)
(* xml_to_csv.py: a batch of XML route files is flattened into one main    *)
(* table (a row per Placemark) and an optional detail table (a row per     *)
(* ViaPoint).                                                              *)
(*                                                                         *)
(* Text is a sequence of one-character strings, so that cleaning,          *)
(* splitting, number parsing, path normalisation and JSON serialisation    *)
(* are computed character by character.                                    *)
(***************************************************************************)
EXTENDS Integers, Sequences, FiniteSets, TLC

VARIABLES
    args,         \* the parsed command line (argparse namespace)
    fs,           \* the input file system: normalised path -> file content
    pc,           \* position of main()
    input_files,  \* main(): input_files
    i,            \* main(): number of entries of input_files already consumed by the loop
    main_rows,    \* main(): main_rows of the last successful process_single_xml
    detail_rows,  \* main(): detail_rows of the last successful process_single_xml
    all_main,     \* main(): all_main
    all_detail,   \* main(): all_detail
    stdout,       \* the lines printed so far
    written,      \* the output paths created so far
    csv_rows,     \* the rows of the main table on disk
    tsv_rows,     \* the rows of the detail table on disk
    exit_status   \* -1 while running, then the exit status of the process

vars == <<args, fs, pc, input_files, i, main_rows, detail_rows, all_main,
          all_detail, stdout, written, csv_rows, tsv_rows, exit_status>>

(***************************************************************************)
(* Bounds of the model.                                                    *)
(***************************************************************************)
MaxPatterns == 2   \* positional input patterns on the command line
MaxVia == 2        \* ViaPoint children of a ViaPoints container

(***************************************************************************)
(* Python values.                                                          *)
(***************************************************************************)
\* None where a text is expected (Element.text of an element without text)
None == <<"None">>

\* The empty str
EmptyStr == <<>>

\* Folds a sequence of texts into one text.
RECURSIVE Concat(_)
Concat(ss) == IF ss = <<>> THEN <<>> ELSE Head(ss) \o Concat(Tail(ss))

\* sep.join(ss)
RECURSIVE Join(_, _)
Join(sep, ss) ==
    IF ss = <<>> THEN <<>>
    ELSE IF Len(ss) = 1 THEN ss[1]
    ELSE ss[1] \o sep \o Join(sep, Tail(ss))

\* s.replace(old, new) for a one-character old and a new that is one
\* character or the empty str
str_replace(s, old, new) ==
    IF new = <<>> THEN SelectSeq(s, LAMBDA c : c # old)
    ELSE [k \in 1..Len(s) |-> IF s[k] = old THEN new[1] ELSE s[k]]

\* The characters str.strip() and str.split() treat as whitespace.
Whitespace == {" ", "\t", "\n", "\r"}

\* s.lstrip()
RECURSIVE lstrip(_)
lstrip(s) ==
    IF s # <<>> /\ Head(s) \in Whitespace THEN lstrip(Tail(s)) ELSE s

\* s.rstrip()
RECURSIVE rstrip(_)
rstrip(s) ==
    IF s # <<>> /\ s[Len(s)] \in Whitespace
    THEN rstrip(SubSeq(s, 1, Len(s) - 1))
    ELSE s

\* s.strip()
strip(s) == rstrip(lstrip(s))

\* s.split(): the maximal runs of non-whitespace characters, in order.
RECURSIVE split_ws(_, _)
split_ws(s, word) ==
    IF s = <<>> THEN (IF word = <<>> THEN <<>> ELSE <<word>>)
    ELSE IF Head(s) \in Whitespace
         THEN (IF word = <<>> THEN <<>> ELSE <<word>>) \o split_ws(Tail(s), <<>>)
         ELSE split_ws(Tail(s), Append(word, Head(s)))

\* s.split(sep) for a one-character sep: always at least one part.
RECURSIVE split_on(_, _, _)
split_on(s, sep, part) ==
    IF s = <<>> THEN <<part>>
    ELSE IF Head(s) = sep
         THEN <<part>> \o split_on(Tail(s), sep, <<>>)
         ELSE split_on(Tail(s), sep, Append(part, Head(s)))

\* clean_text(s), with collapse_space left at its default True
clean_text(s) ==
    IF s = None THEN EmptyStr
    ELSE LET s1 == str_replace(str_replace(str_replace(s, "\r", <<" ">>),
                                           "\n", <<" ">>), "\t", <<" ">>)
             s2 == strip(s1)
         IN  Join(<<" ">>, split_ws(s2, <<>>))

(***************************************************************************)
(* int() and float() on the cleaned texts.                                 *)
(***************************************************************************)
Digits == {"0", "1", "2", "3", "4", "5", "6", "7", "8", "9"}

DigitValue(c) ==
    CASE c = "0" -> 0 [] c = "1" -> 1 [] c = "2" -> 2 [] c = "3" -> 3
      [] c = "4" -> 4 [] c = "5" -> 5 [] c = "6" -> 6 [] c = "7" -> 7
      [] c = "8" -> 8 [] c = "9" -> 9

AllDigits(s) == s # <<>> /\ \A k \in 1..Len(s) : s[k] \in Digits

RECURSIVE DigitsValue(_, _)
DigitsValue(s, acc) ==
    IF s = <<>> THEN acc ELSE DigitsValue(Tail(s), 10 * acc + DigitValue(Head(s)))

HasSign(s) == s # <<>> /\ Head(s) \in {"+", "-"}

Unsigned(s) == IF HasSign(s) THEN Tail(s) ELSE s

Signed(s, n) == IF s # <<>> /\ Head(s) = "-" THEN 0 - n ELSE n

\* int(txt): surrounding whitespace is ignored, then an optional sign and
\* decimal digits; anything else raises ValueError (ok = FALSE).
py_int(txt) ==
    LET t == strip(txt)
        u == Unsigned(t)
    IN  IF AllDigits(u)
        THEN [ok |-> TRUE, val |-> Signed(t, DigitsValue(u, 0))]
        ELSE [ok |-> FALSE, val |-> 0]

\* The position of the first "." of s, or 0.
RECURSIVE IndexOfDot(_, _)
IndexOfDot(s, k) ==
    IF k > Len(s) THEN 0 ELSE IF s[k] = "." THEN k ELSE IndexOfDot(s, k + 1)

\* float(s) over the texts the model draws (sign, digits, one optional "."):
\* a float is <<"float", mantissa, number of fraction digits>>.
py_float(s) ==
    LET t == strip(s)
        u == Unsigned(t)
        d == IndexOfDot(u, 1)
        ip == IF d = 0 THEN u ELSE SubSeq(u, 1, d - 1)
        fp == IF d = 0 THEN <<>> ELSE SubSeq(u, d + 1, Len(u))
        wellFormed ==
            /\ ip \o fp # <<>>
            /\ \A k \in 1..Len(ip) : ip[k] \in Digits
            /\ \A k \in 1..Len(fp) : fp[k] \in Digits
    IN  IF wellFormed
        THEN [ok |-> TRUE,
              val |-> <<"float", Signed(t, DigitsValue(ip \o fp, 0)), Len(fp)>>]
        ELSE [ok |-> FALSE, val |-> None]

\* parse_float_safe(s): the float, or None
parse_float_safe(s) == py_float(s).val

(***************************************************************************)
(* ElementTree elements: a tag, a text (or None) and the children.         *)
(***************************************************************************)
Element(tag, text, kids) == [tag |-> tag, text |-> text, kids |-> kids]

\* None where an element is expected (Element.find without a match)
NoElement == Element("#None", None, <<>>)

\* elem.findall("./tag"): the children with that tag, in document order
findall(elem, tag) == SelectSeq(elem.kids, LAMBDA k : k.tag = tag)

\* elem.find("./t1/t2/..."): the first match in document order, or None
RECURSIVE find(_, _)
find(elem, path) ==
    IF path = <<>> THEN elem
    ELSE LET cands == findall(elem, Head(path))
             found == [k \in 1..Len(cands) |-> find(cands[k], Tail(path))]
             hits == SelectSeq(found, LAMBDA e : e # NoElement)
         IN  IF hits = <<>> THEN NoElement ELSE Head(hits)

\* elem.findall(".//tag"): the descendants of elem with that tag, in
\* document order; elem itself is not a candidate.
RECURSIVE findall_descendants(_, _)
findall_descendants(elem, tag) ==
    Concat([k \in 1..Len(elem.kids) |->
              (IF elem.kids[k].tag = tag THEN <<elem.kids[k]>> ELSE <<>>)
              \o findall_descendants(elem.kids[k], tag)])

\* parse_text(elem, path, default)
parse_text(elem, path, default) ==
    LET node == find(elem, path)
    IN  IF node = NoElement \/ node.text = None THEN default
        ELSE clean_text(node.text)

\* parse_int(elem, path, default)
parse_int(elem, path, default) ==
    LET r == py_int(parse_text(elem, path, EmptyStr))
    IN  IF r.ok THEN r.val ELSE default

(***************************************************************************)
(* parse_via_points and total_distance_km.                                 *)
(***************************************************************************)
\* Variant: the counter starts one too high
seq_start_off == 0 + 1

\* seq = 0 before the loop over the ViaPoint children
seq_start == 0

\* lat, lon of a position text "lon, lat": both None unless the text is
\* non-empty and splits into exactly two parts; then each part is parsed on
\* its own, and a part that is no float leaves its own variable None.
coordinates(pos_txt) ==
    LET raw == split_on(pos_txt, ",", <<>>)
        parts == [k \in 1..Len(raw) |-> strip(raw[k])]
    IN  IF pos_txt # EmptyStr /\ Len(parts) = 2
        THEN [lon |-> parse_float_safe(parts[1]), lat |-> parse_float_safe(parts[2])]
        ELSE [lon |-> None, lat |-> None]

\* What one ViaPoint appends to positions: (lat, lon) when both were parsed.
position_of(c) ==
    IF c.lat # None /\ c.lon # None THEN << <<c.lat, c.lon>> >> ELSE <<>>

\* The detail dict of one ViaPoint
via_detail_of(vp, seq) ==
    LET pos_txt == parse_text(vp, <<"Position">>, EmptyStr)
        c == coordinates(pos_txt)
    IN  [Position |-> pos_txt,
         Lat |-> IF c.lat # None THEN c.lat ELSE EmptyStr,
         Lon |-> IF c.lon # None THEN c.lon ELSE EmptyStr,
         GroupID |-> parse_text(vp, <<"GroupID">>, EmptyStr),
         Segment |-> parse_text(vp, <<"Segment">>, EmptyStr),
         Heading |-> parse_text(vp, <<"Heading">>, EmptyStr),
         Type |-> parse_text(vp, <<"Type">>, EmptyStr),
         LinkToGeom |-> parse_text(vp, <<"LinkToGeom">>, EmptyStr),
         Direction |-> parse_text(vp, <<"Direction">>, EmptyStr),
         TTSRemark |-> parse_text(vp, <<"TTSRemark">>, EmptyStr),
         WorkType |-> parse_text(vp, <<"WorkType">>, EmptyStr),
         MMRule |-> parse_text(vp, <<"MMRule">>, EmptyStr),
         ManeuverID |-> parse_text(vp, <<"ManeuverID">>, EmptyStr),
         ManeuverNumber |-> parse_text(vp, <<"ManeuverNumber">>, EmptyStr),
         IsDeadEnd |-> parse_text(vp, <<"IsDeadEnd">>, EmptyStr),
         seq |-> seq]

\* The dict appended to via_points_min: its keys in insertion order, which is
\* the order json.dumps writes them in.
via_min_of(detail) ==
    << <<"Position", detail.Position>>, <<"GroupID", detail.GroupID>>,
       <<"Segment", detail.Segment>>, <<"Heading", detail.Heading>>,
       <<"Type", detail.Type>>, <<"LinkToGeom", detail.LinkToGeom>>,
       <<"Direction", detail.Direction>>, <<"WorkType", detail.WorkType>>,
       <<"MMRule", detail.MMRule>>, <<"ManeuverID", detail.ManeuverID>>,
       <<"ManeuverNumber", detail.ManeuverNumber>>,
       <<"IsDeadEnd", detail.IsDeadEnd>> >>

\* parse_via_points(routeinfo_elem): (via_points_min, via_points_detail, positions)
parse_via_points(routeinfo_elem) ==
    LET vp_parent == find(routeinfo_elem, <<"ViaPoints">>)
        vps == IF vp_parent = NoElement THEN <<>> ELSE findall(vp_parent, "ViaPoint")
        detail == [k \in 1..Len(vps) |-> via_detail_of(vps[k], seq_start + k)]
    IN  [via_points_min |-> [k \in 1..Len(vps) |-> via_min_of(detail[k])],
         via_points_detail |-> detail,
         positions |->
             Concat([k \in 1..Len(vps) |->
                 position_of(coordinates(parse_text(vps[k], <<"Position">>, EmptyStr)))])]

\* haversine_km(lat1, lon1, lat2, lon2): the great-circle length of one leg,
\* kept symbolic (the trigonometry is outside TLA+'s integers).
haversine_km(lat1, lon1, lat2, lon2) == <<"km", lat1, lon1, lat2, lon2>>

\* total_distance_km(positions): the sum over the consecutive pairs, kept as
\* the sequence of its terms; the empty sum is 0.0.
total_distance_km(positions) ==
    IF Len(positions) <= 1 THEN <<>>
    ELSE [k \in 1..(Len(positions) - 1) |->
            haversine_km(positions[k][1], positions[k][2],
                         positions[k + 1][1], positions[k + 1][2])]

(***************************************************************************)
(* json.dumps(via_min, ensure_ascii=False)                                 *)
(***************************************************************************)
\* The characters of the keys of a via_points_min dict
KeyChars(k) ==
    CASE k = "Position" -> <<"P", "o", "s", "i", "t", "i", "o", "n">>
      [] k = "GroupID" -> <<"G", "r", "o", "u", "p", "I", "D">>
      [] k = "Segment" -> <<"S", "e", "g", "m", "e", "n", "t">>
      [] k = "Heading" -> <<"H", "e", "a", "d", "i", "n", "g">>
      [] k = "Type" -> <<"T", "y", "p", "e">>
      [] k = "LinkToGeom" -> <<"L", "i", "n", "k", "T", "o", "G", "e", "o", "m">>
      [] k = "Direction" -> <<"D", "i", "r", "e", "c", "t", "i", "o", "n">>
      [] k = "WorkType" -> <<"W", "o", "r", "k", "T", "y", "p", "e">>
      [] k = "MMRule" -> <<"M", "M", "R", "u", "l", "e">>
      [] k = "ManeuverID" -> <<"M", "a", "n", "e", "u", "v", "e", "r", "I", "D">>
      [] k = "ManeuverNumber" -> <<"M", "a", "n", "e", "u", "v", "e", "r", "N", "u", "m", "b", "e", "r">>
      [] k = "IsDeadEnd" -> <<"I", "s", "D", "e", "a", "d", "E", "n", "d">>

\* Variant: no character is escaped
json_escape_raw(c) == <<c>>

\* The JSON escape of one character inside a string
json_escape(c) ==
    CASE c = "\"" -> <<"\\", "\"">>
      [] c = "\\" -> <<"\\", "\\">>
      [] c = "\n" -> <<"\\", "n">>
      [] c = "\r" -> <<"\\", "r">>
      [] c = "\t" -> <<"\\", "t">>
      [] OTHER -> <<c>>

\* A str as a JSON string
json_string(s) ==
    <<"\"">> \o Concat([k \in 1..Len(s) |-> json_escape(s[k])]) \o <<"\"">>

\* A dict of str as a JSON object, with the default separators ", " and ": "
json_object(d) ==
    <<"{">>
    \o Join(<<",", " ">>,
            [k \in 1..Len(d) |->
                json_string(KeyChars(d[k][1])) \o <<":", " ">> \o json_string(d[k][2])])
    \o <<"}">>

\* json.dumps of a list of dicts
json_dumps(l) ==
    <<"[">> \o Join(<<",", " ">>, [k \in 1..Len(l) |-> json_object(l[k])]) \o <<"]">>

(***************************************************************************)
(* process_single_xml                                                      *)
(***************************************************************************)
\* Variant: the declared count is written without the fallback
NumViaDeclaredOnly(num_via, via_detail) == num_via

\* RouteInfo_ViaPoints_NumVia: num_via if num_via else len(via_detail)
NumVia(num_via, via_detail) == IF num_via # 0 THEN num_via ELSE Len(via_detail)

\* The main row of a Placemark without RouteInfo
row_without_routeinfo(pm) ==
    [name |-> parse_text(pm, <<"name">>, EmptyStr),
     description |-> parse_text(pm, <<"description">>, EmptyStr),
     CreationTimeUTC |-> parse_text(pm, <<"CreationTimeUTC">>, EmptyStr),
     IsManuallyCorrected |-> parse_text(pm, <<"IsManuallyCorrected">>, EmptyStr),
     TotalDistanceKm |-> <<>>,
     RouteInfo_IgnoringRestrictions |-> EmptyStr,
     RouteInfo_MapCorrectionInfo_DatasetInfo_ImageInfo_ImageName |-> EmptyStr,
     RouteInfo_MapCorrectionInfo_DatasetInfo_ImageInfo_StartMapId |-> EmptyStr,
     RouteInfo_ViaPoints_NumVia |-> 0,
     RouteInfo_ViaPoints_ViaPoint |-> <<"[", "]">>]

\* The main row of a Placemark with RouteInfo
row_with_routeinfo(pm, routeinfo) ==
    LET num_via == parse_int(routeinfo, <<"ViaPoints", "NumVia">>, 0)
        via == parse_via_points(routeinfo)
        via_json == str_replace(str_replace(json_dumps(via.via_points_min),
                                            "\r", <<>>), "\n", <<>>)
    IN  [name |-> parse_text(pm, <<"name">>, EmptyStr),
         description |-> parse_text(pm, <<"description">>, EmptyStr),
         CreationTimeUTC |-> parse_text(pm, <<"CreationTimeUTC">>, EmptyStr),
         IsManuallyCorrected |-> parse_text(pm, <<"IsManuallyCorrected">>, EmptyStr),
         TotalDistanceKm |-> total_distance_km(via.positions),
         RouteInfo_IgnoringRestrictions |->
             parse_text(routeinfo, <<"IgnoringRestrictions">>, EmptyStr),
         RouteInfo_MapCorrectionInfo_DatasetInfo_ImageInfo_ImageName |->
             parse_text(routeinfo,
                        <<"MapCorrectionInfo", "DatasetInfo", "ImageInfo", "ImageName">>,
                        EmptyStr),
         RouteInfo_MapCorrectionInfo_DatasetInfo_ImageInfo_StartMapId |->
             parse_text(routeinfo,
                        <<"MapCorrectionInfo", "DatasetInfo", "ImageInfo", "StartMapId">>,
                        EmptyStr),
         RouteInfo_ViaPoints_NumVia |-> NumVia(num_via, via.via_points_detail),
         RouteInfo_ViaPoints_ViaPoint |-> via_json]

\* The detail row of one detail dict of placemark number idx
detail_row(idx, name, d) ==
    [placemark_index |-> idx, placemark_name |-> name, seq |-> d.seq,
     Position |-> d.Position, Lat |-> d.Lat, Lon |-> d.Lon,
     GroupID |-> d.GroupID, Segment |-> d.Segment, Heading |-> d.Heading,
     Type |-> d.Type, LinkToGeom |-> d.LinkToGeom, Direction |-> d.Direction,
     TTSRemark |-> d.TTSRemark, WorkType |-> d.WorkType, MMRule |-> d.MMRule,
     ManeuverID |-> d.ManeuverID, ManeuverNumber |-> d.ManeuverNumber,
     IsDeadEnd |-> d.IsDeadEnd]

\* The detail rows of placemark number idx (none without RouteInfo)
detail_rows_of(idx, pm) ==
    LET routeinfo == find(pm, <<"RouteInfo">>)
        name == parse_text(pm, <<"name">>, EmptyStr)
        via_detail == parse_via_points(routeinfo).via_points_detail
    IN  IF routeinfo = NoElement THEN <<>>
        ELSE [k \in 1..Len(via_detail) |-> detail_row(idx, name, via_detail[k])]

\* The main row of one placemark
main_row_of(pm) ==
    LET routeinfo == find(pm, <<"RouteInfo">>)
    IN  IF routeinfo = NoElement THEN row_without_routeinfo(pm)
        ELSE row_with_routeinfo(pm, routeinfo)

\* placemarks = root.findall(".//Placemark")
placemarks_of(root) == findall_descendants(root, "Placemark")

\* process_single_xml of a document that parsed, with root element root:
\* (main_rows, detail_rows)
process_single_xml(root) ==
    LET placemarks == placemarks_of(root)
    IN  [main_rows |-> [idx \in 1..Len(placemarks) |-> main_row_of(placemarks[idx])],
         detail_rows |->
             Concat([idx \in 1..Len(placemarks) |-> detail_rows_of(idx, placemarks[idx])])]

(***************************************************************************)
(* The environment: the files that exist, and what globbing finds.         *)
(***************************************************************************)
FileA == <<"a", ".", "x">>
FileB == <<"b", ".", "x">>
FileC == <<"d", "/", "c", ".", "x">>

\* The input files of the working directory: a.x, b.x and d/c.x
ExistingFiles == {FileA, FileB, FileC}

\* The pattern of every file name in the tree (the default of --pattern)
PatStar == <<"*", ".", "x">>
\* a.x, spelled ./a.x
PatDotA == <<".", "/", "a", ".", "x">>
\* A name that matches no file
PatNone == <<"z", ".", "x">>

Patterns == {PatStar, PatDotA, PatNone}

\* str(Path(f)): empty and "." components are dropped, "." when none is left
path_str(f) ==
    LET comps == SelectSeq(split_on(f, "/", <<>>),
                           LAMBDA c : c # <<>> /\ c # <<".">>)
    IN  IF f # <<>> /\ Head(f) = "/" THEN <<"/">> \o Join(<<"/">>, comps)
        ELSE IF comps = <<>> THEN <<".">>
        ELSE Join(<<"/">>, comps)

\* glob.glob(pattern) in the working directory: a pattern without wildcard
\* yields itself, as spelled, when the file exists; *.x yields the files of
\* the working directory.
glob_glob(pattern) ==
    IF pattern = PatStar THEN <<FileA, FileB>>
    ELSE IF path_str(pattern) \in ExistingFiles THEN <<pattern>>
    ELSE <<>>

\* [str(p) for p in base.glob(pattern)] or base.rglob(pattern), pattern *.x
path_glob(base, recursive) ==
    IF path_str(base) = <<".">>
    THEN (IF recursive THEN <<FileA, FileB, FileC>> ELSE <<FileA, FileB>>)
    ELSE IF path_str(base) = <<"d">> THEN <<FileC>>
    ELSE <<>>

(***************************************************************************)
(* collect_input_files                                                     *)
(***************************************************************************)
\* Variant: the raw string is tested and recorded
seen_key_raw(f, p) == f

\* What the dedup loop tests and records in seen for the raw string f, whose
\* normalised form is p: p not in seen / seen.add(p)
seen_key(f, p) == p

\* The loop over files that fills uniq
RECURSIVE uniq_loop(_, _, _)
uniq_loop(files, seen, uniq) ==
    IF files = <<>> THEN uniq
    ELSE LET f == Head(files)
             p == path_str(f)
         IN  IF seen_key(f, p) \notin seen
             THEN uniq_loop(Tail(files), seen \cup {seen_key(f, p)}, Append(uniq, p))
             ELSE uniq_loop(Tail(files), seen, uniq)

\* collect_input_files(args)
collect_input_files(a) ==
    LET explicit == Concat([k \in 1..Len(a.input) |-> glob_glob(a.input[k])])
        scanned == IF a.dir # None /\ a.dir # EmptyStr
                   THEN path_glob(a.dir, a.recursive)
                   ELSE <<>>
    IN  uniq_loop(explicit \o scanned, {}, <<>>)

(***************************************************************************)
(* main                                                                    *)
(***************************************************************************)
\* A file's content: unreadable (open raises OSError), malformed (ET.parse
\* raises ParseError) or a document with a root element.
Content(kind, root) == [kind |-> kind, root |-> root]
Unreadable == Content("unreadable", NoElement)
Malformed == Content("malformed", NoElement)
Xml(root) == Content("xml", root)

Line(kind, path) == [kind |-> kind, path |-> path]

\* input_files = collect_input_files(args); SystemExit when it is empty
Collect ==
    /\ pc = "collect"
    /\ input_files' = collect_input_files(args)
    /\ IF input_files' = <<>>
       THEN pc' = "done" /\ exit_status' = 1
       ELSE pc' = "loop" /\ exit_status' = exit_status
    /\ UNCHANGED <<args, fs, i, main_rows, detail_rows, all_main, all_detail,
                   stdout, written, csv_rows, tsv_rows>>

\* except ET.ParseError: the warning is printed and the loop goes on
HandleParseError(xml_path) ==
    /\ stdout' = Append(stdout, Line("parse_failed", xml_path))
    /\ i' = i + 1
    /\ UNCHANGED <<pc, exit_status>>

\* Variant: OSError is not caught and ends the process
HandleOSErrorUncaught(xml_path) ==
    /\ pc' = "done"
    /\ exit_status' = 1
    /\ UNCHANGED <<stdout, i>>

\* except OSError: the warning is printed and the loop goes on
HandleOSError(xml_path) ==
    /\ stdout' = Append(stdout, Line("read_failed", xml_path))
    /\ i' = i + 1
    /\ UNCHANGED <<pc, exit_status>>

\* One iteration of the loop over input_files
ProcessFile ==
    /\ pc = "loop"
    /\ i < Len(input_files)
    /\ LET xml_path == input_files[i + 1]
           content == fs[xml_path]
       IN  \/ /\ content.kind = "xml"
              /\ main_rows' = process_single_xml(content.root).main_rows
              /\ detail_rows' = process_single_xml(content.root).detail_rows
              /\ all_main' = all_main \o main_rows'
              /\ all_detail' = all_detail \o detail_rows'
              /\ i' = i + 1
              /\ UNCHANGED <<pc, exit_status, stdout>>
           \/ /\ content.kind = "malformed"
              /\ HandleParseError(xml_path)
              /\ UNCHANGED <<main_rows, detail_rows, all_main, all_detail>>
           \/ /\ content.kind = "unreadable"
              /\ HandleOSError(xml_path)
              /\ UNCHANGED <<main_rows, detail_rows, all_main, all_detail>>
    /\ UNCHANGED <<args, fs, input_files, written, csv_rows, tsv_rows>>

\* Variant: the rows are written without the test for an empty all_main
CheckRowsNoExit ==
    /\ pc = "loop"
    /\ i = Len(input_files)
    /\ pc' = "write_main"
    /\ UNCHANGED <<args, fs, input_files, i, main_rows, detail_rows, all_main,
                   all_detail, stdout, written, csv_rows, tsv_rows, exit_status>>

\* if not all_main: raise SystemExit
CheckRows ==
    /\ pc = "loop"
    /\ i = Len(input_files)
    /\ IF all_main = <<>>
       THEN pc' = "done" /\ exit_status' = 1
       ELSE pc' = "write_main" /\ exit_status' = exit_status
    /\ UNCHANGED <<args, fs, input_files, i, main_rows, detail_rows, all_main,
                   all_detail, stdout, written, csv_rows, tsv_rows>>

\* write_main_csv(args.output_csv, all_main): the file is created and the
\* rows written, the JSON column once more without CR and LF (in the rows
\* of all_main themselves).
WriteMain ==
    /\ pc = "write_main"
    /\ all_main' = [k \in 1..Len(all_main) |->
          [all_main[k] EXCEPT !.RouteInfo_ViaPoints_ViaPoint =
              str_replace(str_replace(@, "\r", <<>>), "\n", <<>>)]]
    /\ csv_rows' = all_main'
    /\ written' = written \cup {args.output_csv}
    /\ pc' = "write_detail"
    /\ UNCHANGED <<args, fs, input_files, i, main_rows, detail_rows, all_detail,
                   stdout, tsv_rows, exit_status>>

\* if args.detail_tsv: write_detail_tsv(args.detail_tsv, all_detail), which
\* returns before creating anything when there are no rows
WriteDetail ==
    /\ pc = "write_detail"
    /\ IF args.detail_tsv # None /\ all_detail # <<>>
       THEN /\ written' = written \cup {args.detail_tsv}
            /\ tsv_rows' = all_detail
       ELSE UNCHANGED <<written, tsv_rows>>
    /\ pc' = "print"
    /\ UNCHANGED <<args, fs, input_files, i, main_rows, detail_rows, all_main,
                   all_detail, stdout, csv_rows, exit_status>>

\* The confirmation lines, then the normal end of the process
PrintConfirm ==
    /\ pc = "print"
    /\ stdout' = stdout \o <<Line("csv_written", args.output_csv)>>
                 \o (IF args.detail_tsv # None
                     THEN <<Line("tsv_written", args.detail_tsv)>>
                     ELSE <<>>)
    /\ pc' = "done"
    /\ exit_status' = 0
    /\ UNCHANGED <<args, fs, input_files, i, main_rows, detail_rows, all_main,
                   all_detail, written, csv_rows, tsv_rows>>

Next == Collect \/ ProcessFile \/ CheckRows \/ WriteMain \/ WriteDetail \/ PrintConfirm

(***************************************************************************)
(* The inputs the model draws: documents, command lines, file contents.    *)
(***************************************************************************)
Leaf(tag, text) == Element(tag, text, <<>>)

\* All sequences over S of length at most n
SeqsUpTo(S, n) == UNION {[1..m -> S] : m \in 0..n}

\* Position texts: "1,2"; "3,<LF> -4.5"; "1,x"; "x,2"; "1,2,3"
PosOk == <<"1", ",", "2">>
PosSpaced == <<"3", ",", "\n", " ", "-", "4", ".", "5">>
PosLonOnly == <<"1", ",", "x">>
PosLatOnly == <<"x", ",", "2">>
PosThree == <<"1", ",", "2", ",", "3">>

\* Descriptive children of a ViaPoint, with a quote, a backslash, a tab and
\* a line feed in their texts
SomeAttributes ==
    << Leaf("GroupID", <<"g", "\"">>), Leaf("Segment", <<"\\", "s">>),
       Leaf("TTSRemark", <<"t", "\n", "r">>), Leaf("Heading", <<"\t", "9", " ">>),
       Leaf("IsDeadEnd", <<"0">>) >>

ViaPointSamples ==
    { Element("ViaPoint", None, <<Leaf("Position", PosOk)>> \o SomeAttributes),
      Element("ViaPoint", None, <<Leaf("Position", PosSpaced)>>),
      Element("ViaPoint", None, <<Leaf("Position", PosLonOnly)>>),
      Element("ViaPoint", None, <<Leaf("Position", PosLatOnly)>> \o SomeAttributes),
      Element("ViaPoint", None, <<Leaf("Position", PosThree)>>),
      Element("ViaPoint", None, <<Leaf("Position", None)>>),
      Element("ViaPoint", None, <<Leaf("GroupID", <<"g">>)>>) }

\* Texts of the NumVia element: "0", "2", " 7<LF>", "-1", "x", "2.5"
NumViaTexts ==
    { <<"0">>, <<"2">>, <<" ", "7", "\n">>, <<"-", "1">>, <<"x">>, <<"2", ".", "5">> }

\* The ViaPoints containers: NumVia (when present) before the ViaPoint children
ViaPointsSamples ==
    { Element("ViaPoints", None, <<Leaf("NumVia", t)>> \o vps) :
        t \in NumViaTexts, vps \in SeqsUpTo(ViaPointSamples, MaxVia) }
    \cup { Element("ViaPoints", None, vps) : vps \in SeqsUpTo(ViaPointSamples, MaxVia) }

\* A Placemark named name with the given further children
Placemark(name, kids) == Element("Placemark", None, <<Leaf("name", name)>> \o kids)

RouteInfo(kids) == Element("RouteInfo", None, <<Leaf("IgnoringRestrictions", <<"1">>)>> \o kids)

\* A document: kml > Document > the placemarks
Kml(pms) == Element("kml", None, <<Element("Document", None, pms)>>)

NameA == <<"A">>
NameB == <<" ", "B", "\t", " ", "b">>

\* One route with one good ViaPoint
PlacemarkA ==
    Placemark(NameA,
        <<RouteInfo(<<Element("ViaPoints", None,
            <<Leaf("NumVia", <<"1">>),
              Element("ViaPoint", None, <<Leaf("Position", PosOk)>>)>>)>>)>>)

\* A placemark without RouteInfo
PlacemarkB == Placemark(NameB, <<>>)

\* A placemark with a route, and a second placemark nested in a Folder of it
PlacemarkNested ==
    Placemark(NameA,
        <<RouteInfo(<<Element("ViaPoints", None,
            <<Element("ViaPoint", None, <<Leaf("Position", PosLonOnly)>>),
              Leaf("NumVia", <<"x">>),
              Element("ViaPoint", None, <<Leaf("Position", PosOk)>>)>>)>>),
          Element("Folder", None, <<PlacemarkA>>)>>)

\* A RouteInfo with no ViaPoints container, and one with two of them
PlacemarkNoVia == Placemark(NameA, <<RouteInfo(<<>>)>>)
PlacemarkTwoContainers ==
    Placemark(NameB,
        <<RouteInfo(<<Element("ViaPoints", None,
                        <<Element("ViaPoint", None, <<Leaf("Position", PosOk)>>)>>),
                      Element("ViaPoints", None,
                        <<Leaf("NumVia", <<"5">>),
                          Element("ViaPoint", None, <<Leaf("Position", PosSpaced)>>)>>)>>)>>)

StructuralPlacemarks ==
    {PlacemarkA, PlacemarkB, PlacemarkNested, PlacemarkNoVia, PlacemarkTwoContainers}

\* The documents of the single-file runs: every sampled route alone in a
\* document, and the structural documents (no placemark, several
\* placemarks, nested placemarks, a Placemark as the root element)
RichDocuments ==
    { Kml(<<Placemark(NameA, <<RouteInfo(<<v>>)>>)>>) : v \in ViaPointsSamples }
    \cup { Kml(pms) : pms \in SeqsUpTo(StructuralPlacemarks, 2) }
    \cup StructuralPlacemarks

\* The documents of the batch runs
BatchDocuments == { Kml(<<PlacemarkA>>), Kml(<<PlacemarkB>>), Kml(<<>>) }

CsvPath == <<"o", ".", "c", "s", "v">>
TsvPath == <<"d", ".", "t", "s", "v">>

\* The command lines of the batch runs
BatchArgs ==
    { [input |-> inp, dir |-> d[1], recursive |-> d[2], pattern |-> PatStar,
       output_csv |-> CsvPath, detail_tsv |-> t] :
        inp \in SeqsUpTo(Patterns, MaxPatterns),
        d \in { <<None, FALSE>>, <<(<<".">>), FALSE>>, <<(<<".">>), TRUE>>,
                <<(<<"d">>), FALSE>> },
        t \in {None, TsvPath} }

\* The state main() starts in
Start ==
    /\ pc = "collect"
    /\ input_files = <<>>
    /\ i = 0
    /\ main_rows = <<>>
    /\ detail_rows = <<>>
    /\ all_main = <<>>
    /\ all_detail = <<>>
    /\ stdout = <<>>
    /\ written = {}
    /\ csv_rows = <<>>
    /\ tsv_rows = <<>>
    /\ exit_status = -1

\* Batch runs: any command line over the three files; a.x is unreadable,
\* malformed or a document with a placemark, b.x malformed or a document
\* with or without a placemark, d/c.x unreadable or a document
Init ==
    /\ args \in BatchArgs
    /\ fs \in [ExistingFiles -> {Unreadable, Malformed} \cup {Xml(d) : d \in BatchDocuments}]
    /\ fs[FileA] # Xml(Kml(<<>>))
    /\ fs[FileB] \in {Malformed, Xml(Kml(<<PlacemarkA>>)), Xml(Kml(<<>>))}
    /\ fs[FileC] \in {Unreadable, Xml(Kml(<<PlacemarkA>>))}
    /\ Start

\* Single-file runs: ./a.x with any content, a detail table requested
InitDoc ==
    /\ args = [input |-> <<PatDotA>>, dir |-> None, recursive |-> FALSE,
               pattern |-> PatStar, output_csv |-> CsvPath, detail_tsv |-> TsvPath]
    /\ \E c \in {Unreadable, Malformed} \cup {Xml(d) : d \in RichDocuments} :
          fs = [f \in ExistingFiles |-> IF f = FileA THEN c ELSE Unreadable]
    /\ Start

Spec == Init /\ [][Next]_vars

SpecDoc == InitDoc /\ [][Next]_vars

(***************************************************************************)
(* Reading the outputs back: a JSON reader for the waypoint summary, and   *)
(* the document as the claims count it.                                    *)
(***************************************************************************)
JsonFail == [ok |-> FALSE, val |-> <<>>, next |-> 0]

\* The characters of a JSON string, from position p (after the opening
\* quote) to the closing quote
RECURSIVE JsonScanString(_, _, _)
JsonScanString(t, p, acc) ==
    IF p > Len(t) THEN JsonFail
    ELSE IF t[p] = "\"" THEN [ok |-> TRUE, val |-> acc, next |-> p + 1]
    ELSE IF t[p] \in {"\n", "\r", "\t"} THEN JsonFail
    ELSE IF t[p] = "\\"
         THEN IF p + 1 > Len(t) THEN JsonFail
              ELSE IF t[p + 1] \in {"\"", "\\", "/"}
                   THEN JsonScanString(t, p + 2, Append(acc, t[p + 1]))
              ELSE IF t[p + 1] = "n" THEN JsonScanString(t, p + 2, Append(acc, "\n"))
              ELSE IF t[p + 1] = "r" THEN JsonScanString(t, p + 2, Append(acc, "\r"))
              ELSE IF t[p + 1] = "t" THEN JsonScanString(t, p + 2, Append(acc, "\t"))
              ELSE JsonFail
    ELSE JsonScanString(t, p + 1, Append(acc, t[p]))

JsonString(t, p) ==
    IF p <= Len(t) /\ t[p] = "\"" THEN JsonScanString(t, p + 1, <<>>) ELSE JsonFail

RECURSIVE JsonSkip(_, _)
JsonSkip(t, p) ==
    IF p <= Len(t) /\ t[p] \in Whitespace THEN JsonSkip(t, p + 1) ELSE p

JsonIs(t, p, c) == p <= Len(t) /\ t[p] = c

\* The members "key": "value" of an object, from position p to its "}"
RECURSIVE JsonMembers(_, _, _)
JsonMembers(t, p, acc) ==
    LET key == JsonString(t, JsonSkip(t, p))
        colon == JsonSkip(t, key.next)
        value == JsonString(t, JsonSkip(t, colon + 1))
        after == JsonSkip(t, value.next)
    IN  IF ~key.ok \/ ~JsonIs(t, colon, ":") THEN JsonFail
        ELSE IF ~value.ok THEN JsonFail
        ELSE IF JsonIs(t, after, "}")
             THEN [ok |-> TRUE, val |-> Append(acc, <<key.val, value.val>>),
                   next |-> after + 1]
        ELSE IF JsonIs(t, after, ",")
             THEN JsonMembers(t, after + 1, Append(acc, <<key.val, value.val>>))
        ELSE JsonFail

JsonObject(t, p) ==
    IF ~JsonIs(t, p, "{") THEN JsonFail
    ELSE IF JsonIs(t, JsonSkip(t, p + 1), "}")
         THEN [ok |-> TRUE, val |-> <<>>, next |-> JsonSkip(t, p + 1) + 1]
    ELSE JsonMembers(t, p + 1, <<>>)

\* The objects of an array, from position p to its "]"
RECURSIVE JsonElements(_, _, _)
JsonElements(t, p, acc) ==
    LET obj == JsonObject(t, JsonSkip(t, p))
        after == JsonSkip(t, obj.next)
    IN  IF ~obj.ok THEN JsonFail
        ELSE IF JsonIs(t, after, "]")
             THEN [ok |-> TRUE, val |-> Append(acc, obj.val), next |-> after + 1]
        ELSE IF JsonIs(t, after, ",")
             THEN JsonElements(t, after + 1, Append(acc, obj.val))
        ELSE JsonFail

\* The JSON text t read as an array of objects of strings: each object is
\* the sequence of its <<key, value>> members. ok = FALSE when t is no such text.
json_loads(t) ==
    LET start == JsonSkip(t, 1)
        arr == IF ~JsonIs(t, start, "[") THEN JsonFail
               ELSE IF JsonIs(t, JsonSkip(t, start + 1), "]")
                    THEN [ok |-> TRUE, val |-> <<>>, next |-> JsonSkip(t, start + 1) + 1]
               ELSE JsonElements(t, start + 1, <<>>)
    IN  [ok |-> arr.ok /\ JsonSkip(t, arr.next) = Len(t) + 1, val |-> arr.val]

\* The elements of a document in document order, the root included
RECURSIVE Preorder(_)
Preorder(elem) == <<elem>> \o Concat([k \in 1..Len(elem.kids) |-> Preorder(elem.kids[k])])

\* Every Placemark element of the document, the root included
PlacemarkElements(root) == SelectSeq(Preorder(root), LAMBDA e : e.tag = "Placemark")

\* The file the loop of main() has just processed parsed as XML, so that
\* main_rows and detail_rows are its rows
LastParsed == pc # "collect" /\ i >= 1 /\ fs[input_files[i]].kind = "xml"

\* The root element of that file
LastRoot == fs[input_files[i]].root

\* The detail rows of the last file that belong to placemark number k
DetailOf(k) == SelectSeq(detail_rows, LAMBDA r : r.placemark_index = k)

\* The k-th element of a sequence
At(s, k) == Head(SubSeq(s, k, k))

\* The RouteInfo element behind main row k of the last file, or NoElement
RouteInfoOf(k) == find(At(placemarks_of(LastRoot), k), <<"RouteInfo">>)

\* The ViaPoint children of the waypoint container of a RouteInfo
WaypointsOf(ri) ==
    LET container == find(ri, <<"ViaPoints">>)
    IN  IF container = NoElement THEN <<>>
        ELSE SelectSeq(container.kids, LAMBDA e : e.tag = "ViaPoint")

\* A position text that is exactly two comma-separated numeric tokens
TwoNumericTokens(pos) ==
    LET parts == split_on(pos, ",", <<>>)
    IN  Len(parts) = 2 /\ py_float(parts[1]).ok /\ py_float(parts[2]).ok

(***************************************************************************)
(* The claims.                                                             *)
(***************************************************************************)
\* What the first n input files should have contributed
ExpectedMain(n) ==
    Concat([k \in 1..n |->
        IF fs[input_files[k]].kind = "xml"
        THEN process_single_xml(fs[input_files[k]].root).main_rows ELSE <<>>])

ExpectedDetail(n) ==
    Concat([k \in 1..n |->
        IF fs[input_files[k]].kind = "xml"
        THEN process_single_xml(fs[input_files[k]].root).detail_rows ELSE <<>>])

\* The failing files among the first n input files, in discovery order
FailingFiles(n) ==
    Concat([k \in 1..n |->
        IF fs[input_files[k]].kind = "xml" THEN <<>> ELSE <<input_files[k]>>])

\* The paths of the warnings printed so far, in the order printed
WarnedFiles ==
    LET w == SelectSeq(stdout, LAMBDA l : l.kind \in {"parse_failed", "read_failed"})
    IN  [k \in 1..Len(w) |-> w[k].path]

\* C1: whatever subset of the input files fails to parse or to be read, the
\* loop of main() consumes the files in discovery order and leaves the loop
\* only after the last one; one warning has been printed per failing file
\* consumed; and all_main and all_detail are the concatenation, in discovery
\* order, of the rows of the consumed files that parsed (a failing file
\* contributes nothing).
C1_FailingFilesAreSkipped ==
    (pc # "collect" /\ input_files # <<>>) =>
        /\ i \in 0..Len(input_files)
        /\ all_main = ExpectedMain(i)
        /\ all_detail = ExpectedDetail(i)
        /\ WarnedFiles = FailingFiles(i)
        /\ (pc # "loop" => i = Len(input_files))

\* C1 witness: a finished run over three files of which exactly one failed,
\* with rows from the two others
C1_Witness ==
    /\ pc = "done"
    /\ exit_status = 0
    /\ Len(input_files) = 3
    /\ Len(WarnedFiles) = 1
    /\ Len(all_main) = 2

\* C2: a run with no resolved input, or with no main row after the loop,
\* ends with a non-zero exit status, and no output path is ever created in
\* it (all_main only grows, so it was empty throughout such a run); with no
\* resolved input the run ends at once, no file processed, nothing printed.
C2_NoOutputWithoutRows ==
    /\ (all_main = <<>> => written = {} /\ csv_rows = <<>> /\ tsv_rows = <<>>)
    /\ (pc = "done" /\ all_main = <<>> => exit_status = 1)
    /\ (pc # "collect" /\ input_files = <<>> =>
            pc = "done" /\ exit_status = 1 /\ i = 0 /\ stdout = <<>> /\ all_main = <<>>)
    /\ (pc \in {"write_main", "write_detail", "print"} => all_main # <<>>)

\* C2 witness: a run whose input files were all consumed without a main row
\* (here with a file that parsed but holds no placemark) has ended
C2_Witness ==
    /\ pc = "done"
    /\ Len(input_files) >= 2
    /\ i = Len(input_files)
    /\ all_main = <<>>
    /\ \E k \in 1..Len(input_files) : fs[input_files[k]].kind = "xml"
    /\ exit_status = 1

\* C3: in the rows of a parsed file, a waypoint whose position text is not
\* exactly two comma-separated numeric tokens has empty Lat and empty Lon,
\* is left out of the coordinate sequence of the distance sum (one leg per
\* consecutive pair of well-formed positions), and still has its detail row.
C3_MalformedPositionHasNoCoordinates ==
    LastParsed =>
        \A k \in 1..Len(main_rows) :
            LET rows == DetailOf(k)
                good == SelectSeq(rows, LAMBDA r : TwoNumericTokens(r.Position))
            IN  RouteInfoOf(k) # NoElement =>
                    /\ \A j \in 1..Len(rows) :
                           ~TwoNumericTokens(rows[j].Position) =>
                               rows[j].Lat = EmptyStr /\ rows[j].Lon = EmptyStr
                    /\ Len(main_rows[k].TotalDistanceKm)
                           = (IF Len(good) = 0 THEN 0 ELSE Len(good) - 1)
                    /\ Len(rows) = Len(WaypointsOf(RouteInfoOf(k)))

\* The declared count of a NumVia element when it is a non-zero number, and
\* 0 when the element is missing or its text is zero or not a number
DeclaredCount(nv) ==
    IF nv = NoElement THEN 0
    ELSE CASE nv.text = <<"1">> -> 1
           [] nv.text = <<"2">> -> 2
           [] nv.text = <<"5">> -> 5
           [] nv.text = <<" ", "7", "\n">> -> 7
           [] nv.text = <<"-", "1">> -> 0 - 1
           [] OTHER -> 0

\* C4: the NumVia of the main row of a placemark with RouteInfo is the
\* declared count when that is a non-zero number, and otherwise the number
\* of waypoints extracted for the route (its detail rows).
C4_NumViaDeclaredOrCounted ==
    LastParsed =>
        \A k \in 1..Len(main_rows) :
            LET declared == DeclaredCount(find(RouteInfoOf(k), <<"ViaPoints", "NumVia">>))
            IN  RouteInfoOf(k) # NoElement =>
                    main_rows[k].RouteInfo_ViaPoints_NumVia
                        = (IF declared # 0 THEN declared ELSE Len(DetailOf(k)))

\* C4 witness: a route declares a count that is no number and has two
\* waypoints, which its main row counts
C4_Witness ==
    /\ LastParsed
    /\ \E k \in 1..Len(main_rows) :
          /\ RouteInfoOf(k) # NoElement
          /\ find(RouteInfoOf(k), <<"ViaPoints", "NumVia">>) # NoElement
          /\ find(RouteInfoOf(k), <<"ViaPoints", "NumVia">>).text = <<"x">>
          /\ Len(DetailOf(k)) = 2
          /\ main_rows[k].RouteInfo_ViaPoints_NumVia = 2

\* C5: every Placemark element of a parsed document, the root element and
\* nested placemarks included, has exactly one main row, in document order,
\* and the placemark numbers of the detail rows are the positions 1..N of
\* their placemarks in that order.
C5_EveryPlacemarkHasOneRow ==
    LastParsed =>
        LET pms == PlacemarkElements(LastRoot)
        IN  /\ Len(main_rows) = Len(pms)
            /\ \A k \in 1..Len(main_rows) :
                   /\ k <= Len(pms)
                   /\ main_rows[k].name = parse_text(At(pms, k), <<"name">>, EmptyStr)
                   /\ Len(DetailOf(k))
                          = Len(WaypointsOf(find(At(pms, k), <<"RouteInfo">>)))
            /\ \A j \in 1..Len(detail_rows) :
                   detail_rows[j].placemark_index \in 1..Len(pms)

\* C6: after a successful run the confirmation lines name exactly the output
\* paths that were written; the detail table is written only when a detail
\* path was requested and there is a detail row.
C6_ConfirmationsNameWrittenPaths ==
    (pc = "done" /\ exit_status = 0) =>
        /\ {stdout[k].path : k \in {m \in 1..Len(stdout) :
                stdout[m].kind \in {"csv_written", "tsv_written"}}} = written
        /\ (TsvPath \in written => args.detail_tsv = TsvPath /\ all_detail # <<>>)

\* The raw strings the explicit patterns and then the directory scan produce
RawFiles ==
    Concat([k \in 1..Len(args.input) |-> glob_glob(args.input[k])])
    \o (IF args.dir = None THEN <<>> ELSE path_glob(args.dir, args.recursive))

\* Their normalised path strings
NormalisedFiles == [k \in 1..Len(RawFiles) |-> path_str(RawFiles[k])]

FirstIndex(seq, x) ==
    CHOOSE k \in 1..Len(seq) : seq[k] = x /\ \A m \in 1..(k - 1) : seq[m] # x

\* C7: the list collect_input_files returns has no two equal normalised path
\* strings, holds every path the explicit patterns and the directory scan
\* produced, and is ordered by first occurrence (explicit patterns in
\* argument order, then the scan).
C7_InputFilesDeduplicatedInOrder ==
    pc # "collect" =>
        LET norm == NormalisedFiles
        IN  /\ \A a, b \in 1..Len(input_files) : a # b => input_files[a] # input_files[b]
            /\ {input_files[k] : k \in 1..Len(input_files)}
                   = {norm[k] : k \in 1..Len(norm)}
            /\ \A a, b \in 1..Len(input_files) :
                   a < b => FirstIndex(norm, input_files[a]) < FirstIndex(norm, input_files[b])

\* C7 witness: a path was produced twice under two spellings, by a pattern
\* and again by the directory scan, and is listed once
C7_Witness ==
    /\ pc # "collect"
    /\ args.dir # None
    /\ Len(input_files) >= 2
    /\ \E a, b \in 1..Len(RawFiles) :
          /\ a < b
          /\ RawFiles[a] # RawFiles[b]
          /\ NormalisedFiles[a] = NormalisedFiles[b]
    /\ \E a, b \in 1..Len(RawFiles) :
          a < b /\ b > Len(args.input) /\ RawFiles[a] = RawFiles[b]

\* C8: the detail rows of a route carry seq 1, 2, ..., k in the document
\* order of the ViaPoint children of its waypoint container, k being the
\* number of those children; a waypoint with an unparseable position keeps
\* its number.
C8_SeqContiguousFromOne ==
    LastParsed =>
        \A k \in 1..Len(main_rows) :
            LET rows == DetailOf(k)
                vps == WaypointsOf(RouteInfoOf(k))
            IN  RouteInfoOf(k) # NoElement =>
                    /\ Len(rows) = Len(vps)
                    /\ \A j \in 1..Len(rows) :
                           /\ rows[j].seq = j
                           /\ rows[j].Position = parse_text(vps[j], <<"Position">>, EmptyStr)
                           /\ rows[j].GroupID = parse_text(vps[j], <<"GroupID">>, EmptyStr)

\* C8 witness: a route whose first waypoint has no parseable position, with
\* a second waypoint numbered 2
C8_Witness ==
    /\ LastParsed
    /\ \E k \in 1..Len(main_rows) :
          /\ Len(DetailOf(k)) = 2
          /\ DetailOf(k)[1].Lat = EmptyStr
          /\ DetailOf(k)[1].Lon = EmptyStr
          /\ DetailOf(k)[2].seq = 2
          /\ DetailOf(k)[2].Lat # EmptyStr

\* The summary a detail row should read back as: the summary attributes in
\* their order, without TTSRemark, seq, Lat and Lon
SummaryOf(r) ==
    << <<KeyChars("Position"), r.Position>>, <<KeyChars("GroupID"), r.GroupID>>,
       <<KeyChars("Segment"), r.Segment>>, <<KeyChars("Heading"), r.Heading>>,
       <<KeyChars("Type"), r.Type>>, <<KeyChars("LinkToGeom"), r.LinkToGeom>>,
       <<KeyChars("Direction"), r.Direction>>, <<KeyChars("WorkType"), r.WorkType>>,
       <<KeyChars("MMRule"), r.MMRule>>, <<KeyChars("ManeuverID"), r.ManeuverID>>,
       <<KeyChars("ManeuverNumber"), r.ManeuverNumber>>,
       <<KeyChars("IsDeadEnd"), r.IsDeadEnd>> >>

C10_DetailRowsIdentified ==
    \A a, b \in 1..Len(all_detail) :
        a # b => <<all_detail[a].placemark_index, all_detail[a].placemark_name,
                   all_detail[a].seq>>
                 # <<all_detail[b].placemark_index, all_detail[b].placemark_name,
                     all_detail[b].seq>>

====
